---------------------------- MODULE Spec2Model ----------------------------
(***************************************************************************)
(* Ground segmentation of 04_dbscan_clustering.py: the plane-based         *)
(* coordinate transform, the grid height map (bucketing, 5th-percentile    *)
(* estimate, neighbour smoothing) and the floor / non-floor classifier.    *)
(*                                                                         *)
(* Units: one model unit is 0.01 coordinate unit, so the grid resolution   *)
(* 0.3 is 30, the KD-tree search radius 1 is 100, the smoothing threshold  *)
(* 0.05 is 5 and the classification threshold 0.15 is 15.  Coordinates are *)
(* integers; IEEE rounding of the bin edges is not modelled.               *)
(***************************************************************************)
EXTENDS Integers, Sequences, FiniteSets, TLC

VARIABLES
    pc,                    \* position of the script
    points,                \* ror_points: the frame, a sequence of <<x, y, z>>
    plane,                 \* plane_model: <<a, b, c, d>>
    transformed_points,    \* result of transform_to_plane_based_coordinates
    x_bins, y_bins,        \* bin edges
    raw,                   \* calculate_height_map: height_map after step 3
    grid_keys,             \* calculate_height_map: keys in dict order
    grid_values,           \* calculate_height_map: snapshot of the raw values
    processed_height_map,  \* calculate_height_map: the smoothed map
    pending,               \* cells the smoothing loop has not visited yet
    height_map,            \* script level: the map calculate_height_map returned
    idx,                   \* classifier loop: next point index (0-based)
    non_floor_indices,     \* classifier result, in append order
    floor_indices,         \* set(range(N)) - set(non_floor_indices)
    error,                 \* the exception that ended the script, or "none"
    bins_in, value_in,     \* bucketing check: a bin-edge sequence and a value
    digitize_out,          \* np.digitize(value, bins) - 1
    searchsorted_out,      \* np.searchsorted(bins, value, side='right') - 1
    z_values,              \* percentile check: the z-values of one cell
    estimate               \* percentile check: the cell's raw estimate, <<v>>

vars == <<pc, points, plane, transformed_points, x_bins, y_bins, raw,
          grid_keys, grid_values, processed_height_map, pending, height_map,
          idx, non_floor_indices, floor_indices, error, bins_in, value_in,
          digitize_out, searchsorted_out, z_values, estimate>>

-----------------------------------------------------------------------------
(* Program constants, in model units *)

grid_resolution == 30

OneGridResolution == grid_resolution

search_radius == 100

smoothing_threshold == 5

threshold == 15

(* Bounds of the model *)

MaxPoints == 3

MaxBins == 4

MaxCellValues == 41

MaxCells == 3

-----------------------------------------------------------------------------
(* Helpers *)

Abs(v) == IF v < 0 THEN -v ELSE v

Max(a, b) == IF a >= b THEN a ELSE b

MinOfSet(S) == CHOOSE m \in S : \A v \in S : m <= v

MaxOfSet(S) == CHOOSE m \in S : \A v \in S : m >= v

Range(s) == {s[n] : n \in 1..Len(s)}

\* Python's 0-based indexing of a sequence
At(s, i) == s[i + 1]

\* dict assignment d[k] = v
Put(d, k, v) == [c \in (DOMAIN d) \cup {k} |-> IF c = k THEN v ELSE d[c]]

EmptyDict == [c \in {} |-> 0]

-----------------------------------------------------------------------------
(* transform_to_plane_based_coordinates *)

Norm2(a, b, c) == a * a + b * b + c * c

\* np.linalg.norm: exact on the planes of the model, whose norm is an integer
Norm(a, b, c) == CHOOSE r \in 0..Norm2(a, b, c) : r * r = Norm2(a, b, c)

PlaneValue(p, pl) == pl[1] * p[1] + pl[2] * p[2] + pl[3] * p[3] + pl[4]

\* One row of transformed_points.  With a zero normal the divisions are
\* float divisions by 0.0: they raise nothing, distances is inf or nan,
\* distances * normal is nan, so x' and y' are nan and z' is inf or nan;
\* the row is then marked nan and its numbers carry no meaning.
TransformPoint(p, pl) ==
    LET n2 == Norm2(pl[1], pl[2], pl[3])
        s  == PlaneValue(p, pl)
    IN  IF n2 = 0
        THEN [nan |-> TRUE, x |-> 0, y |-> 0, z |-> 0]
        ELSE [nan |-> FALSE,
              x |-> (p[1] * n2 - s * pl[1]) \div n2,
              y |-> (p[2] * n2 - s * pl[2]) \div n2,
              z |-> s \div Norm(pl[1], pl[2], pl[3])]

transform_to_plane_based_coordinates(pts, pl) ==
    [n \in 1..Len(pts) |-> TransformPoint(pts[n], pl)]

-----------------------------------------------------------------------------
(* Bin edges and bucketing *)

\* np.arange(start, stop, step): ceil((stop - start) / step) edges
Arange(start, stop, step) ==
    LET len == IF stop > start THEN (stop - start + step - 1) \div step ELSE 0
    IN  [k \in 1..len |-> start + (k - 1) * step]

DigitizeRightClosed(v, bins) == Cardinality({k \in 1..Len(bins) : bins[k] < v})

\* np.digitize(v, bins), right=False, increasing bins: the i with
\* bins[i-1] <= v < bins[i], i.e. the number of edges <= v
Digitize(v, bins) == Cardinality({k \in 1..Len(bins) : bins[k] <= v})

RECURSIVE BisectRight(_, _, _, _)
BisectRight(bins, v, lo, hi) ==
    IF lo >= hi THEN lo
    ELSE LET mid == (lo + hi) \div 2
         IN  IF At(bins, mid) <= v
             THEN BisectRight(bins, v, mid + 1, hi)
             ELSE BisectRight(bins, v, lo, mid)

RECURSIVE BisectLeft(_, _, _, _)
BisectLeft(bins, v, lo, hi) ==
    IF lo >= hi THEN lo
    ELSE LET mid == (lo + hi) \div 2
         IN  IF At(bins, mid) < v
             THEN BisectLeft(bins, v, mid + 1, hi)
             ELSE BisectLeft(bins, v, lo, mid)

SearchSortedLeft(bins, v) == BisectLeft(bins, v, 0, Len(bins))

\* np.searchsorted(bins, v, side='right')
SearchSortedRight(bins, v) == BisectRight(bins, v, 0, Len(bins))

\* the builder's cell index on one axis
BuilderIndex(v, bins) == Digitize(v, bins) - 1

\* the classifier's cell index on one axis
ClassifierIndex(bins, v) == SearchSortedRight(bins, v) - 1

\* 0 <= i < len(bins) - 1
ValidIndex(i, bins) == 0 <= i /\ i < Len(bins) - 1

-----------------------------------------------------------------------------
(* calculate_height_map, steps 1 to 3: bucketing and the raw estimate *)

ValidPoint(row, xb, yb) ==
    /\ ValidIndex(BuilderIndex(row.x, xb), xb)
    /\ ValidIndex(BuilderIndex(row.y, yb), yb)

BuilderCell(row, xb, yb) == <<BuilderIndex(row.x, xb), BuilderIndex(row.y, yb)>>

\* the loop of step 3 over the rows n..Len(rows): d.keys is the dict's key
\* order (first insertion), d.lists the z-values appended per key
RECURSIVE BucketLoop(_, _, _, _, _)
BucketLoop(rows, xb, yb, n, d) ==
    IF n > Len(rows) THEN d
    ELSE IF ~ValidPoint(rows[n], xb, yb) THEN BucketLoop(rows, xb, yb, n + 1, d)
    ELSE LET key == BuilderCell(rows[n], xb, yb)
             z   == rows[n].z
         IN  IF key \in DOMAIN d.lists
             THEN BucketLoop(rows, xb, yb, n + 1,
                      [d EXCEPT !.lists = Put(@, key, Append(d.lists[key], z))])
             ELSE BucketLoop(rows, xb, yb, n + 1,
                      [keys |-> Append(d.keys, key),
                       lists |-> Put(d.lists, key, <<z>>)])

Bucket(rows, xb, yb) ==
    BucketLoop(rows, xb, yb, 1, [keys |-> <<>>, lists |-> EmptyDict])

\* np.sort: insertion of s[n] into the sorted prefix
RECURSIVE InsertSorted(_, _)
InsertSorted(s, v) ==
    IF s = <<>> THEN <<v>>
    ELSE IF v < Head(s) THEN <<v>> \o s
    ELSE <<Head(s)>> \o InsertSorted(Tail(s), v)

RECURSIVE SortFrom(_, _, _)
SortFrom(s, n, acc) ==
    IF n > Len(s) THEN acc ELSE SortFrom(s, n + 1, InsertSorted(acc, s[n]))

SortAsc(s) == SortFrom(s, 1, <<>>)

Index95thPercentile(n) == Max(0, (n * 95) \div 100)

\* max(0, int(len(sorted_z_values) * 0.05)); int(n * 0.05) = n * 5 \div 100
\* for every n below two million (the float product never falls below n/20)
Index5thPercentile(n) == Max(0, (n * 5) \div 100)

\* sorted_z_values[index_5th_percentile]
CellEstimate(zs) == At(SortAsc(zs), Index5thPercentile(Len(zs)))

\* height_map after the loop of lines 69-75 (every list is non-empty, so no
\* key is set to None)
RawHeightMap(d) == [key \in DOMAIN d.lists |-> CellEstimate(d.lists[key])]

-----------------------------------------------------------------------------
(* calculate_height_map, step 4: neighbour smoothing *)

\* ((x_bins[i] + x_bins[i+1]) / 2, (y_bins[j] + y_bins[j+1]) / 2); the sums
\* are even on the bins of the model
Center(key, xb, yb) ==
    <<(At(xb, key[1]) + At(xb, key[1] + 1)) \div 2,
      (At(yb, key[2]) + At(yb, key[2] + 1)) \div 2>>

GridCenters(keys, xb, yb) == [n \in 1..Len(keys) |-> Center(keys[n], xb, yb)]

Dist2(p, q) == (p[1] - q[1]) * (p[1] - q[1]) + (p[2] - q[2]) * (p[2] - q[2])

\* cKDTree.query_ball_point(q, r): the 0-based indices of the centers at
\* distance <= r of q
QueryBallPoint(centers, q, r) ==
    {i \in 0..(Len(centers) - 1) : Dist2(At(centers, i), q) <= r * r}

KDTreeAcceptsAll(centers) == TRUE

\* cKDTree(grid_centers): np.array([]) of no keys has shape (0,), and the
\* constructor raises ValueError for data that is not 2-dimensional
KDTreeBuilds(centers) == Len(centers) > 0

\* one iteration of the loop of lines 92-113 for cell key, on the state
\* st = [height_map, grid_values, grid_centers, processed, x_bins, y_bins]
SmoothedHeight(st, key, thr) ==
    LET height  == st.height_map[key]
        indices == QueryBallPoint(st.grid_centers,
                                  Center(key, st.x_bins, st.y_bins), search_radius)
        neighbor_heights == {At(st.grid_values, i) : i \in indices}
    IN  IF neighbor_heights # {}
        THEN LET smallest_neighbor == MinOfSet(neighbor_heights)
             IN  IF Abs(height - smallest_neighbor) > thr
                 THEN smallest_neighbor ELSE height
        ELSE height

PositionOf(keys, key) == CHOOSE n \in 1..Len(keys) : keys[n] = key

SmoothStepInPlace(st, key, thr) ==
    LET v == SmoothedHeight(st, key, thr)
    IN  [st EXCEPT !.processed = Put(@, key, v),
                   !.grid_values[PositionOf(st.grid_keys, key)] = v]

\* processed_height_map[(i, j)] = ...: the write goes to the new dict only
SmoothStep(st, key, thr) ==
    [st EXCEPT !.processed = Put(@, key, SmoothedHeight(st, key, thr))]

RECURSIVE SmoothLoop(_, _, _)
SmoothLoop(st, n, thr) ==
    IF n > Len(st.grid_keys) THEN st
    ELSE SmoothLoop(SmoothStep(st, st.grid_keys[n], thr), n + 1, thr)

\* the locals of calculate_height_map before the smoothing loop
SmoothState(rawmap, keys, xb, yb) ==
    [height_map   |-> rawmap,
     grid_keys    |-> keys,
     grid_values  |-> [n \in 1..Len(keys) |-> rawmap[keys[n]]],
     grid_centers |-> GridCenters(keys, xb, yb),
     processed    |-> EmptyDict,
     x_bins       |-> xb,
     y_bins       |-> yb]

-----------------------------------------------------------------------------
(* The script: transform, grid, height map, classification *)

IsNonFloorSwappedKey(row, xb, yb, hm) ==
    LET x_idx == ClassifierIndex(xb, row.x)
        y_idx == ClassifierIndex(yb, row.y)
    IN  /\ ValidIndex(x_idx, xb) /\ ValidIndex(y_idx, yb)
        /\ <<y_idx, x_idx>> \in DOMAIN hm
        /\ Abs(row.z - hm[<<y_idx, x_idx>>]) > threshold

\* the loop body of lines 211-216: TRUE iff idx is appended
IsNonFloor(row, xb, yb, hm) ==
    LET x_idx == ClassifierIndex(xb, row.x)
        y_idx == ClassifierIndex(yb, row.y)
    IN  /\ ValidIndex(x_idx, xb) /\ ValidIndex(y_idx, yb)
        /\ <<x_idx, y_idx>> \in DOMAIN hm          \* .get(...) is not None
        /\ Abs(row.z - hm[<<x_idx, y_idx>>]) > threshold

FloorIndicesShort(n, nf) == (0..(n - 2)) \ Range(nf)

\* set(range(len(transformed_points))) - set(non_floor_indices)
FloorIndices(n, nf) == (0..(n - 1)) \ Range(nf)

XValues == {0, 60, 100}

YValues == {0, 30, 40}

ZValues == {0, 20}

\* frames of 1..MaxPoints points (np.min of line 196 needs at least one)
Frames ==
    UNION {[1..n -> XValues \X YValues \X ZValues] : n \in 1..MaxPoints}

\* planes with a normal of integer norm, and a zero normal
Planes == {<<0, 0, 1, 0>>, <<0, 0, -1, 20>>, <<0, 0, 0, 5>>}

Idle ==
    /\ bins_in = <<>> /\ value_in = 0
    /\ digitize_out = <<>> /\ searchsorted_out = <<>>
    /\ z_values = <<>> /\ estimate = <<>>

NoScript ==
    /\ pc = "idle" /\ points = <<>> /\ plane = <<0, 0, 1, 0>>
    /\ transformed_points = <<>> /\ height_map = EmptyDict
    /\ idx = 0 /\ non_floor_indices = <<>> /\ floor_indices = {}
    /\ error = "none"

NoHeightMap ==
    /\ x_bins = <<>> /\ y_bins = <<>> /\ raw = EmptyDict
    /\ grid_keys = <<>> /\ grid_values = <<>>
    /\ processed_height_map = EmptyDict /\ pending = {}

Init ==
    /\ pc = "start"
    /\ points \in Frames
    /\ plane \in Planes
    /\ transformed_points = <<>> /\ height_map = EmptyDict
    /\ idx = 0 /\ non_floor_indices = <<>> /\ floor_indices = {}
    /\ error = "none"
    /\ NoHeightMap
    /\ Idle

\* line 192
Transform ==
    /\ pc = "start"
    /\ transformed_points' = transform_to_plane_based_coordinates(points, plane)
    /\ pc' = "transformed"
    /\ UNCHANGED <<points, plane, x_bins, y_bins, raw, grid_keys, grid_values,
                   processed_height_map, pending, height_map, idx,
                   non_floor_indices, floor_indices, error, bins_in, value_in,
                   digitize_out, searchsorted_out, z_values, estimate>>

\* lines 195-200; np.min / np.max of a column holding nan is nan, and
\* np.arange(nan, nan, 0.3) raises ValueError
BuildGrid ==
    /\ pc = "transformed"
    /\ IF \E n \in 1..Len(transformed_points) : transformed_points[n].nan
       THEN /\ pc' = "failed"
            /\ error' = "arange raised"
            /\ UNCHANGED <<x_bins, y_bins>>
       ELSE LET xs == {transformed_points[n].x : n \in 1..Len(transformed_points)}
                ys == {transformed_points[n].y : n \in 1..Len(transformed_points)}
            IN  /\ x_bins' = Arange(MinOfSet(xs), MaxOfSet(xs), grid_resolution)
                /\ y_bins' = Arange(MinOfSet(ys), MaxOfSet(ys), grid_resolution)
                /\ pc' = "grid"
                /\ UNCHANGED error
    /\ UNCHANGED <<points, plane, transformed_points, raw, grid_keys,
                   grid_values, processed_height_map, pending, height_map, idx,
                   non_floor_indices, floor_indices, bins_in, value_in,
                   digitize_out, searchsorted_out, z_values, estimate>>

\* line 204: the whole call of calculate_height_map
CalculateHeightMap ==
    /\ pc = "grid"
    /\ LET d   == Bucket(transformed_points, x_bins, y_bins)
           st0 == SmoothState(RawHeightMap(d), d.keys, x_bins, y_bins)
       IN  /\ raw' = st0.height_map
           /\ grid_keys' = st0.grid_keys
           /\ IF KDTreeBuilds(st0.grid_centers)
              THEN LET st == SmoothLoop(st0, 1, smoothing_threshold)
                   IN  /\ grid_values' = st.grid_values
                       /\ processed_height_map' = st.processed
                       /\ height_map' = st.processed
                       /\ pc' = "classify"
                       /\ UNCHANGED error
              ELSE /\ grid_values' = st0.grid_values
                   /\ pc' = "failed"
                   /\ error' = "cKDTree raised"
                   /\ UNCHANGED <<processed_height_map, height_map>>
    /\ UNCHANGED <<points, plane, transformed_points, x_bins, y_bins, pending,
                   idx, non_floor_indices, floor_indices, bins_in, value_in,
                   digitize_out, searchsorted_out, z_values, estimate>>

\* lines 210-216: one iteration of the classifier loop
ClassifyPoint ==
    /\ pc = "classify"
    /\ idx < Len(transformed_points)
    /\ non_floor_indices' =
           IF IsNonFloor(At(transformed_points, idx), x_bins, y_bins, height_map)
           THEN Append(non_floor_indices, idx) ELSE non_floor_indices
    /\ idx' = idx + 1
    /\ UNCHANGED <<pc, points, plane, transformed_points, x_bins, y_bins, raw,
                   grid_keys, grid_values, processed_height_map, pending,
                   height_map, floor_indices, error, bins_in, value_in,
                   digitize_out, searchsorted_out, z_values, estimate>>

\* line 221
ComputeFloor ==
    /\ pc = "classify"
    /\ idx = Len(transformed_points)
    /\ floor_indices' = FloorIndices(Len(transformed_points), non_floor_indices)
    /\ pc' = "done"
    /\ UNCHANGED <<points, plane, transformed_points, x_bins, y_bins, raw,
                   grid_keys, grid_values, processed_height_map, pending,
                   height_map, idx, non_floor_indices, error, bins_in, value_in,
                   digitize_out, searchsorted_out, z_values, estimate>>

Next == Transform \/ BuildGrid \/ CalculateHeightMap \/ ClassifyPoint \/ ComputeFloor

Spec == Init /\ [][Next]_vars

-----------------------------------------------------------------------------
(* The smoothing pass of calculate_height_map, one cell per step, the cells *)
(* taken in any order                                                       *)

BinSteps == {grid_resolution, 2 * grid_resolution}

RawValues == {0, 6, 8}

RowCells == {<<i, 0>> : i \in 0..(MaxCells - 1)}

KeyOrders ==
    {ks \in UNION {[1..n -> RowCells] : n \in 1..MaxCells} :
        \A m, n \in 1..Len(ks) : m # n => ks[m] # ks[n]}

InitSmoothing ==
    /\ pc = "smoothing" /\ points = <<>> /\ plane = <<0, 0, 1, 0>>
    /\ transformed_points = <<>> /\ height_map = EmptyDict
    /\ idx = 0 /\ non_floor_indices = <<>> /\ floor_indices = {}
    /\ error = "none"
    /\ \E step \in BinSteps :
          /\ x_bins = Arange(0, step * MaxCells + 1, step)
          /\ y_bins = <<0, step>>
    /\ grid_keys \in KeyOrders
    /\ raw \in [Range(grid_keys) -> RawValues]
    /\ grid_values = [n \in 1..Len(grid_keys) |-> raw[grid_keys[n]]]
    /\ processed_height_map = EmptyDict
    /\ pending = Range(grid_keys)
    /\ Idle

\* lines 92-113 for one cell
SmoothCell ==
    /\ pc = "smoothing"
    /\ \E key \in pending :
          LET st == [height_map   |-> raw,
                     grid_keys    |-> grid_keys,
                     grid_values  |-> grid_values,
                     grid_centers |-> GridCenters(grid_keys, x_bins, y_bins),
                     processed    |-> processed_height_map,
                     x_bins       |-> x_bins,
                     y_bins       |-> y_bins]
              st2 == SmoothStep(st, key, smoothing_threshold)
          IN  /\ raw' = st2.height_map
              /\ grid_values' = st2.grid_values
              /\ processed_height_map' = st2.processed
              /\ pending' = pending \ {key}
    /\ UNCHANGED <<pc, points, plane, transformed_points, x_bins, y_bins,
                   grid_keys, height_map, idx, non_floor_indices,
                   floor_indices, error, bins_in, value_in, digitize_out,
                   searchsorted_out, z_values, estimate>>

\* line 116
ReturnHeightMap ==
    /\ pc = "smoothing"
    /\ pending = {}
    /\ height_map' = processed_height_map
    /\ pc' = "returned"
    /\ UNCHANGED <<points, plane, transformed_points, x_bins, y_bins, raw,
                   grid_keys, grid_values, processed_height_map, pending, idx,
                   non_floor_indices, floor_indices, error, bins_in, value_in,
                   digitize_out, searchsorted_out, z_values, estimate>>

NextSmoothing == SmoothCell \/ ReturnHeightMap

SpecSmoothing == InitSmoothing /\ [][NextSmoothing]_vars

-----------------------------------------------------------------------------
(* The two bucketing rules on one value and one bin-edge sequence *)

EdgeValues == {0, 10, 20, 30}

CoordinateValues == {-5, 0, 5, 10, 20, 25, 30, 35}

BinEdgeSequences ==
    {b \in UNION {[1..n -> EdgeValues] : n \in 0..MaxBins} :
        \A n \in 1..(Len(b) - 1) : b[n] <= b[n + 1]}

InitBucketing ==
    /\ NoScript
    /\ NoHeightMap
    /\ bins_in \in BinEdgeSequences
    /\ value_in \in CoordinateValues
    /\ digitize_out = <<>> /\ searchsorted_out = <<>>
    /\ z_values = <<>> /\ estimate = <<>>

\* line 49 (and 50)
BuilderBucket ==
    /\ digitize_out = <<>>
    /\ digitize_out' = <<BuilderIndex(value_in, bins_in)>>
    /\ UNCHANGED <<pc, points, plane, transformed_points, x_bins, y_bins, raw,
                   grid_keys, grid_values, processed_height_map, pending,
                   height_map, idx, non_floor_indices, floor_indices, error,
                   bins_in, value_in, searchsorted_out, z_values, estimate>>

\* line 211 (and 212)
ClassifierBucket ==
    /\ searchsorted_out = <<>>
    /\ searchsorted_out' = <<ClassifierIndex(bins_in, value_in)>>
    /\ UNCHANGED <<pc, points, plane, transformed_points, x_bins, y_bins, raw,
                   grid_keys, grid_values, processed_height_map, pending,
                   height_map, idx, non_floor_indices, floor_indices, error,
                   bins_in, value_in, digitize_out, z_values, estimate>>

NextBucketing == BuilderBucket \/ ClassifierBucket

SpecBucketing == InitBucketing /\ [][NextBucketing]_vars

-----------------------------------------------------------------------------
(* The raw estimate of one occupied cell *)

CellLists ==
    {[i \in 1..n |-> (i * k) % m] :
        n \in 1..MaxCellValues, k \in 1..4, m \in {2, 3, 7, 47}} \cup {<<0, 1, 500>>}

InitPercentile ==
    /\ NoScript
    /\ NoHeightMap
    /\ bins_in = <<>> /\ value_in = 0
    /\ digitize_out = <<>> /\ searchsorted_out = <<>>
    /\ z_values \in CellLists
    /\ estimate = <<>>

\* lines 70-73 for one key
EstimateCell ==
    /\ estimate = <<>>
    /\ estimate' = <<CellEstimate(z_values)>>
    /\ UNCHANGED <<pc, points, plane, transformed_points, x_bins, y_bins, raw,
                   grid_keys, grid_values, processed_height_map, pending,
                   height_map, idx, non_floor_indices, floor_indices, error,
                   bins_in, value_in, digitize_out, searchsorted_out, z_values>>

NextPercentile == EstimateCell

SpecPercentile == InitPercentile /\ [][NextPercentile]_vars

-----------------------------------------------------------------------------
(* Notions the properties are stated with *)

\* the cells i of an axis with bins[i] <= v < bins[i+1]
IntervalCells(v, bins) ==
    {i \in 0..(Len(bins) - 2) : At(bins, i) <= v /\ v < At(bins, i + 1)}

InGrid(row) ==
    IntervalCells(row.x, x_bins) # {} /\ IntervalCells(row.y, y_bins) # {}

IntervalCell(row) ==
    <<CHOOSE i \in IntervalCells(row.x, x_bins) : TRUE,
      CHOOSE j \in IntervalCells(row.y, y_bins) : TRUE>>

AllIndices == 0..(Len(transformed_points) - 1)

NonFloorSet == Range(non_floor_indices)

\* outside the grid bounds, or in a cell with no height estimate
Excluded ==
    {i \in AllIndices :
        \/ ~InGrid(At(transformed_points, i))
        \/ IntervalCell(At(transformed_points, i)) \notin DOMAIN height_map}

\* the estimate of cell c after smoothing with radius r, from the raw map only
SnapshotSmoothed(rawmap, xb, yb, c, r, thr) ==
    LET near == {k \in DOMAIN rawmap :
                    Dist2(Center(k, xb, yb), Center(c, xb, yb)) <= r * r}
        m    == MinOfSet({rawmap[k] : k \in near})
    IN  IF Abs(rawmap[c] - m) > thr THEN m ELSE rawmap[c]

HeightMapReturned == pc \in {"classify", "done"}

\* the number of values of zs below v, and at most v
CountBelow(zs, v) == Cardinality({i \in 1..Len(zs) : zs[i] < v})

CountAtMost(zs, v) == Cardinality({i \in 1..Len(zs) : zs[i] <= v})

\* the value at 0-based rank r of zs sorted ascending
ValueAtRank(zs, r) ==
    CHOOSE v \in Range(zs) : CountBelow(zs, v) <= r /\ r < CountAtMost(zs, v)

\* twice the median of zs
TwiceMedian(zs) ==
    LET n == Len(zs)
    IN  IF n % 2 = 1 THEN 2 * ValueAtRank(zs, n \div 2)
        ELSE ValueAtRank(zs, n \div 2 - 1) + ValueAtRank(zs, n \div 2)

-----------------------------------------------------------------------------
(* C1 *)

\* C1, as stated: once the frame is classified, floor (the index range minus
\* the non-floor indices), non-floor and excluded are pairwise disjoint and
\* cover every index.
C1_ThreeWayPartition ==
    pc = "done" =>
        /\ floor_indices \cap NonFloorSet = {}
        /\ floor_indices \cap Excluded = {}
        /\ NonFloorSet \cap Excluded = {}
        /\ floor_indices \cup NonFloorSet \cup Excluded = AllIndices

\* C1, amended: once the frame is classified, floor and non-floor are
\* disjoint and cover every index, and every excluded index is in floor and
\* not in non-floor.
C1_ExcludedCountedAsFloor ==
    pc = "done" =>
        /\ floor_indices \cap NonFloorSet = {}
        /\ floor_indices \cup NonFloorSet = AllIndices
        /\ Excluded \subseteq floor_indices
        /\ NonFloorSet \cap Excluded = {}

C1_Witness ==
    /\ pc = "done"
    /\ Excluded # {}
    /\ NonFloorSet # {}
    /\ floor_indices \ Excluded # {}

(* C2 *)

\* C2: once the bin edges are built, every transformed point with x' in
\* [x_min, x_max) and y' in [y_min, y_max) has a valid cell index on both
\* axes, for the height-map builder and for the classifier.
C2_BinsCoverMinToMax ==
    pc = "grid" =>
        LET rows == transformed_points
            xs == {rows[n].x : n \in 1..Len(rows)}
            ys == {rows[n].y : n \in 1..Len(rows)}
        IN  \A n \in 1..Len(rows) :
                (/\ MinOfSet(xs) <= rows[n].x /\ rows[n].x < MaxOfSet(xs)
                 /\ MinOfSet(ys) <= rows[n].y /\ rows[n].y < MaxOfSet(ys))
                => /\ ValidPoint(rows[n], x_bins, y_bins)
                   /\ ValidIndex(ClassifierIndex(x_bins, rows[n].x), x_bins)
                   /\ ValidIndex(ClassifierIndex(y_bins, rows[n].y), y_bins)

(* C3 *)

\* C3: at every point of the smoothing pass, whatever the order of the
\* cells, each smoothed value written so far is the one determined by the
\* raw map alone, and the raw map and its snapshot are unchanged.
C3_SmoothingReadsRawOnly ==
    pc \in {"smoothing", "returned"} =>
        /\ grid_values = [n \in 1..Len(grid_keys) |-> raw[grid_keys[n]]]
        /\ DOMAIN processed_height_map = DOMAIN raw \ pending
        /\ \A key \in DOMAIN processed_height_map :
              processed_height_map[key] =
                  SnapshotSmoothed(raw, x_bins, y_bins, key, search_radius,
                                   smoothing_threshold)

\* a cell was lowered, and a neighbour of it that would have been lowered
\* too had it read the lowered value kept its raw estimate
C3_Witness ==
    /\ pc = "returned"
    /\ \E k1, k2 \in DOMAIN height_map :
          /\ k1 # k2
          /\ Dist2(Center(k1, x_bins, y_bins), Center(k2, x_bins, y_bins))
                 <= search_radius * search_radius
          /\ height_map[k1] # raw[k1]
          /\ height_map[k2] = raw[k2]
          /\ Abs(raw[k2] - height_map[k1]) > smoothing_threshold

(* C4 *)

C5_SameCellIndex ==
    (digitize_out # <<>> /\ searchsorted_out # <<>>) =>
        /\ digitize_out[1] = searchsorted_out[1]
        /\ ValidIndex(digitize_out[1], bins_in)
               <=> ValidIndex(searchsorted_out[1], bins_in)
        /\ \A k \in 1..Len(bins_in) :
              bins_in[k] = value_in =>
                  /\ digitize_out[1] >= k - 1
                  /\ searchsorted_out[1] >= k - 1
                  /\ At(bins_in, digitize_out[1]) = value_in
                  /\ At(bins_in, searchsorted_out[1]) = value_in

C5_Witness ==
    /\ digitize_out # <<>> /\ searchsorted_out # <<>>
    /\ \E k \in 2..(Len(bins_in) - 1) :
          bins_in[k] = value_in /\ bins_in[k - 1] < value_in
    /\ ValidIndex(searchsorted_out[1], bins_in)

(* C6 *)

NoPointInGrid ==
    \A n \in 1..Len(transformed_points) : ~InGrid(transformed_points[n])

\* C6: when no point of the frame is inside the grid, calculate_height_map
\* ends in an error that ends the script: no height map is returned, and no
\* non-floor or floor result is produced.
C6_EmptyGridFails ==
    (/\ pc \notin {"start", "transformed", "grid"}
     /\ error # "arange raised"
     /\ NoPointInGrid)
    => /\ pc = "failed"
       /\ error = "cKDTree raised"
       /\ height_map = EmptyDict
       /\ non_floor_indices = <<>>
       /\ floor_indices = {}

\* the grid has cells on both axes and still holds no point
C6_Witness ==
    /\ pc = "failed"
    /\ error = "cKDTree raised"
    /\ Len(x_bins) >= 2 /\ Len(y_bins) >= 2
    /\ NoPointInGrid

(* C7 *)

\* C7: with a zero normal the transform fails and returns no transformed
\* points; with a nonzero normal it returns one row per input point.
C7_DegeneratePlaneFails ==
    pc # "start" =>
        IF Norm2(plane[1], plane[2], plane[3]) = 0
        THEN transformed_points = <<>> /\ pc = "failed"
        ELSE Len(transformed_points) = Len(points)

(* C8 *)

\* C8: the raw estimate of a cell with n values is the value at rank
\* floor(n / 20) of the values sorted ascending; it is at least the minimum
\* and at most the median, and for n < 20 it is the minimum.
C8_PercentileRank ==
    estimate # <<>> =>
        LET n == Len(z_values)
        IN  /\ estimate[1] = ValueAtRank(z_values, n \div 20)
            /\ estimate[1] >= MinOfSet(Range(z_values))
            /\ 2 * estimate[1] <= TwiceMedian(z_values)
            /\ n < 20 => estimate[1] = MinOfSet(Range(z_values))

C8_Witness ==
    /\ estimate # <<>>
    /\ Len(z_values) >= 40
    /\ estimate[1] > MinOfSet(Range(z_values))
    /\ 2 * estimate[1] < TwiceMedian(z_values)

(* C9 *)

C10_LookupNeverMisses ==
    HeightMapReturned =>
        LET valid == {n \in 1..Len(transformed_points) :
                         /\ ValidIndex(ClassifierIndex(x_bins,
                                transformed_points[n].x), x_bins)
                         /\ ValidIndex(ClassifierIndex(y_bins,
                                transformed_points[n].y), y_bins)}
        IN  DOMAIN height_map =
                {<<ClassifierIndex(x_bins, transformed_points[n].x),
                   ClassifierIndex(y_bins, transformed_points[n].y)>> :
                     n \in valid}

\* two occupied cells, one of them holding a point that lies on a bin edge
C10_Witness ==
    /\ HeightMapReturned
    /\ Cardinality(DOMAIN height_map) >= 2
    /\ \E n \in 1..Len(transformed_points) :
          /\ InGrid(transformed_points[n])
          /\ \E k \in 2..Len(x_bins) : x_bins[k] = transformed_points[n].x

=============================================================================
